---- MODULE Spec2Model ----
(***************************************************************************)
(* Batch scheduler of the image upscaler (component MultiImageProcessor,   *)
(* src/unnamed/part_008) together with the remote upscale client           *)
(* (StabilityAIService, src/unnamed/part_003) it drives.                   *)
(*                                                                         *)
(* Execution model.  The component runs on the browser's single thread:    *)
(* every click handler, timer callback and promise continuation is one     *)
(* task that runs to completion.  State updates queued by a task are       *)
(* applied by React's render that follows the task, and the effects of     *)
(* part_008:52-62 then copy processedImages, isPaused and selectedScale    *)
(* into their refs.  One action of this module is one task followed by     *)
(* its render and effects.  processedImagesRef.current and                 *)
(* selectedScaleRef.current therefore equal processedImages and            *)
(* selectedScale whenever a task starts and are not kept as separate       *)
(* variables; isPausedRef is kept, because handlePauseResume reads it      *)
(* between its setIsPaused call and the render.                            *)
(*                                                                         *)
(* Array indices are 1-based here (imageIndex + 1 of the source).          *)
(***************************************************************************)
EXTENDS Integers, Sequences, FiniteSets, TLC

\* ------------------------------------------------------------------ bounds
MaxImages == 3          \* largest batch explored
MaxClicks == 3          \* clicks on Start, Pause/Resume and Retry in one behaviour
MaxScaleChanges == 1    \* changes of the scale selection in one behaviour
MaxPasses == 1          \* estimation passes (initializeImages, updateEstimates) awaiting at once
MaxScaleImages == 2     \* largest batch for which changes of the scale selection are explored
MaxProgressImages == 1  \* largest batch for which axios progress events are explored
MaxEdits == 1           \* uploads, removals and clears of the page in one behaviour
MaxDebits == 3          \* executions of the credit handlers in one behaviour
MaxEstimateCalls == 2   \* calls of the estimator on one image
MaxOrphanCalls == 0     \* remote calls and timers of a processor that is unmounted
MaxUpscales == 2        \* clicks on Upscale (single image mode) in one behaviour
MaxStartCredits == 2    \* largest balance the single image mode starts with

\* --------------------------------------------------------------- constants
ScaleOptions == {2, 4, 8}
ConcurrencyOptions == {1, 2, 3}
DefaultScale == 2
DefaultConcurrency == 2
PixelsPerCredit == 1000000
InitialProgress == 10
MaxSizeInBytes == 10485760
PixelSizes == {0, 1, 500, 1000, 1001, 4000}  \* widths and heights of the images estimated
Percents == {3, 50, 100}  \* percentages of the axios progress events explored

InitialCredits == 10    \* the balance the user starts with

None == [kind |-> "none"]
NoToast == "none"
DeductionErrorToast == "Credit Deduction Error"
ProcessingErrorToast == "Processing Error"
UpscaledToast == "Image Upscaled!"
DebitAmounts == {1, 4}  \* estimatedCredits of the jobs that complete
NoTimer == [armed |-> FALSE]
NoError == "none"
UpscaleError == "Failed to upscale image. Please try again."

VARIABLES
    images,                  \* the images prop (ids of the uploaded images)
    processedImages,         \* job records
    selectedScale,
    isProcessing,
    isPaused,
    isPausedRef,
    maxConcurrentProcessing,
    inflight,                \* remote upscale calls awaiting their outcome
    timers,                  \* armed re-admission timers (closures)
    initPasses,              \* initializeImages calls awaiting the estimates
    estTimer,                \* the debounce timeout of updateEstimates
    estPasses,               \* updateEstimates calls awaiting the estimates
    lastCall,                \* the props callback invoked by the last task
    completeCalls,           \* onProcessingComplete calls since the last Start
    clicks,                  \* clicks on Start, Pause/Resume and Retry so far
    scaleChanges,            \* changes of the scale selection so far
    edits,                   \* uploads, removals and clears of the page so far
    \* the credit ledger and the page's credit handlers (Index.tsx)
    credits,                 \* profiles.credits, the stored balance
    profile,                 \* profile.credits as the page last fetched it
    closureProfile,          \* profile.credits in the closure the running handlers call
    debits,                  \* executions of the credit handlers, finished ones included
    transactions,            \* amounts of the usage rows inserted
    lastToast,               \* title of the last toast of the credit handlers
    upscaled,                \* single image mode: the upscale call returned its blob
    processedImageUrl,       \* single image mode: the processed image is shown
    user,                    \* a user is signed in (and the profile is loaded)
    gate,                    \* single image mode: what handleStartProcessing did with the request
    \* one call of StabilityAIService.upscaleImage
    file,                    \* the file passed in
    clientPc,                \* where the call is
    events,                  \* the progress events delivered to onProgress
    requests,                \* network requests issued
    cause,                   \* why the call failed
    thrown,                  \* message of the Error the call rejects with
    lastPercent,             \* percent of the last axios progress event of the phase
    \* calls of StabilityAIService.estimateCreditCost on one image
    estInput,                \* the image and the scale
    estResults               \* what the calls resolved with

schedulerVars == <<images, processedImages, selectedScale, isProcessing, isPaused,
                   isPausedRef, maxConcurrentProcessing, inflight, timers, initPasses,
                   estTimer, estPasses, lastCall, completeCalls, clicks, scaleChanges>>
singleVars == <<user, gate>>
ledgerVars == <<credits, profile, closureProfile, debits, transactions,
                lastToast, upscaled, processedImageUrl, singleVars>>
clientVars == <<file, clientPc, events, requests, cause, thrown, lastPercent>>
estimateVars == <<estInput, estResults>>

vars == <<schedulerVars, edits, ledgerVars, clientVars, estimateVars>>

\* ----------------------------------------------------------------- helpers
Max(a, b) == IF a >= b THEN a ELSE b
Min(a, b) == IF a <= b THEN a ELSE b
Abs(a) == IF a >= 0 THEN a ELSE 0 - a
\* variant: the quotient is rounded down
CeilDiv_Floor(a, b) == a \div b
CeilDiv(a, b) == (a + b - 1) \div b

\* Array.prototype.slice(0, end), including a negative end
Slice0(s, end) ==
    LET e == IF end < 0 THEN Max(Len(s) + end, 0) ELSE Min(end, Len(s))
    IN  SubSeq(s, 1, e)

\* updated[k] = rec on a copy of the list: a write one past the end appends
\* (a write further out, which leaves holes, does not arise within MaxEdits)
WriteAt(list, k, rec) ==
    IF k \in 1..Len(list) THEN [list EXCEPT ![k] = rec]
    ELSE IF k = Len(list) + 1 THEN Append(list, rec)
    ELSE list

SeqRemove(s, pos) == [k \in 1..(Len(s) - 1) |-> IF k < pos THEN s[k] ELSE s[k + 1]]

\* the uploaded files: image k is ImageWidth(k) x ImageHeight(k) pixels;
\* width 0 stands for a file whose dimensions cannot be read
ImageWidth(k) == IF k % 3 = 1 THEN 1000 ELSE IF k % 3 = 2 THEN 500 ELSE 0
ImageHeight(k) == IF k % 3 = 1 THEN 1000 ELSE IF k % 3 = 2 THEN 500 ELSE 0

\* the img.onload branch of estimateCreditCost for an image of w x h pixels
creditsOnLoad(w, h, scale) == Max(1, CeilDiv(w * h * scale * scale, PixelsPerCredit))

\* the img.onerror branch of estimateCreditCost
creditsOnError == 1

\* StabilityAIService.estimateCreditCost
estimateCreditCost(k, scale) ==
    IF ImageWidth(k) = 0
    THEN creditsOnError
    ELSE creditsOnLoad(ImageWidth(k), ImageHeight(k), scale)

\* Math.round(progress / 10) * 10 for progress given in tenths of a percent
RoundToTen(tenths) == ((tenths + 50) \div 100) * 10

StatusCount(list, st) == Cardinality({k \in 1..Len(list) : list[k].status = st})

Indices(list) == [k \in 1..Len(list) |-> k]

\* ------------------------------------------------------------ job records
\* a record as initializeImages creates it
NewRecord(id, scale) ==
    [id |-> id, status |-> "pending", progress |-> 0, processed |-> FALSE,
     error |-> NoError, scale |-> scale, estimatedCredits |-> estimateCreditCost(id, scale)]

\* the list initializeImages writes
initializeImages(imgs, scale) == [k \in 1..Len(imgs) |-> NewRecord(imgs[k], scale)]

\* the list updateEstimates writes, computed from its snapshot
updateEstimates(snap, scale) ==
    [k \in 1..Len(snap) |->
        IF snap[k].status \in {"pending", "failed"}
        THEN [snap[k] EXCEPT !.scale = scale,
                             !.estimatedCredits = estimateCreditCost(snap[k].id, scale)]
        ELSE snap[k]]

\* the state update of progressCallback, for an event of `tenths` tenths of a percent
progressCallback(list, k, tenths) ==
    IF k \in 1..Len(list) /\ Abs(list[k].progress - RoundToTen(tenths)) >= 10
    THEN [list EXCEPT ![k].progress = RoundToTen(tenths)]
    ELSE list

\* processImageAtIndex up to its await: the record becomes 'processing' and
\* upscaleImage reports its first progress event before the request is sent
processImageAtIndex(list, k) ==
    IF k \in 1..Len(list) /\ list[k].status = "pending"
    THEN progressCallback([list EXCEPT ![k].status = "processing", ![k].progress = 0],
                          k, InitialProgress * 10)
    ELSE list

completedImage(call) ==
    [call.imageToProcess EXCEPT !.status = "completed", !.progress = 100,
                                !.processed = TRUE, !.scale = selectedScale]

\* variant: the catch block leaves the record 'processing'
failedImage_StillProcessing(call) ==
    [call.imageToProcess EXCEPT !.status = "processing", !.progress = 0]

failedImage(call) ==
    [call.imageToProcess EXCEPT !.status = "failed", !.progress = 0,
                                !.error = UpscaleError]

\* creditsUsed of processImageAtIndex
creditsUsed(call) ==
    IF call.imageToProcess.estimatedCredits # 0
    THEN call.imageToProcess.estimatedCredits
    ELSE selectedScale

\* variant: a retried record keeps its error
handleRetryFailed_KeepError(list) ==
    [k \in 1..Len(list) |->
        IF list[k].status = "failed"
        THEN [list[k] EXCEPT !.status = "pending", !.progress = 0]
        ELSE list[k]]

\* handleRetryFailed
handleRetryFailed(list) ==
    [k \in 1..Len(list) |->
        IF list[k].status = "failed"
        THEN [list[k] EXCEPT !.status = "pending", !.progress = 0, !.error = NoError]
        ELSE list[k]]

\* -------------------------------------------------------------- admission
pendingIndices(list) == SelectSeq(Indices(list), LAMBDA k : list[k].status = "pending")
processingCount(list) == StatusCount(list, "processing")
\* variant: a slot for every record, whatever the cap
availableSlots_NoCap(list, c) == Len(list)
availableSlots(list, c) == c - processingCount(list)
\* variant: the last pending indices are taken instead of the first
indicesToProcess_FromEnd(list, c) ==
    LET n == Len(Slice0(pendingIndices(list), availableSlots(list, c)))
    IN  SubSeq(pendingIndices(list), Len(pendingIndices(list)) - n + 1,
               Len(pendingIndices(list)))
indicesToProcess(list, c) == Slice0(pendingIndices(list), availableSlots(list, c))

\* variant: the batch-complete branch looks at the pending records only
allProcessed_PendingOnly(list) == Len(pendingIndices(list)) = 0

\* the guard of the batch-complete branch
allProcessed(list) == Len(pendingIndices(list)) = 0 /\ processingCount(list) = 0

RECURSIVE AdmitAll(_, _)
AdmitAll(list, idxs) ==
    IF idxs = <<>> THEN list
    ELSE AdmitAll(processImageAtIndex(list, Head(idxs)), Tail(idxs))

UsedRaces == {inflight[p].race : p \in 1..Len(inflight)}
NewRace == CHOOSE g \in 1..(Len(inflight) + 1) : g \notin UsedRaces

\* variant: admission without the isPausedRef guard
startParallelProcessing_NoPauseGuard(list, c, pausedRef) ==
    IF allProcessed(list)
    THEN [list |-> list, calls |-> <<>>, finished |-> TRUE]
    ELSE [list |-> AdmitAll(list, indicesToProcess(list, c)),
          calls |-> [n \in 1..Len(indicesToProcess(list, c)) |->
                        [index |-> indicesToProcess(list, c)[n],
                         imageToProcess |-> list[indicesToProcess(list, c)[n]],
                         race |-> NewRace, c |-> c, phase |-> "upload"]],
          finished |-> FALSE]

\* one run of startParallelProcessing in a closure that captured the cap c:
\* the list it leaves, the remote calls it starts, whether it finished the batch
startParallelProcessing(list, c, pausedRef) ==
    IF pausedRef
    THEN [list |-> list, calls |-> <<>>, finished |-> FALSE]
    ELSE IF allProcessed(list)
    THEN [list |-> list, calls |-> <<>>, finished |-> TRUE]
    ELSE [list |-> AdmitAll(list, indicesToProcess(list, c)),
          calls |-> [n \in 1..Len(indicesToProcess(list, c)) |->
                        [index |-> indicesToProcess(list, c)[n],
                         imageToProcess |-> list[indicesToProcess(list, c)[n]],
                         race |-> NewRace, c |-> c, phase |-> "upload"]],
          finished |-> FALSE]

\* the call made on the props by a run of startParallelProcessing
CompleteCall(run) ==
    IF run.finished THEN [kind |-> "complete", results |-> run.list] ELSE None

\* the debounce effect of updateEstimates after a render: re-armed when one of
\* its dependencies changed; a timeout whose closure fails the guard of its
\* callback does nothing when it fires and is kept as not armed
EstTimerAfter(list, scale, processing) ==
    IF scale # selectedScale \/ Len(list) # Len(processedImages) \/ processing # isProcessing
    THEN IF Len(list) > 0 /\ ~processing
         THEN [armed |-> TRUE, snap |-> list, scale |-> scale]
         ELSE NoTimer
    ELSE estTimer

\* a finished call leaves; the Promise.race it belonged to settles and arms
\* the re-admission timer of its closure
AfterCall(pos) ==
    /\ inflight' = [p \in 1..(Len(inflight) - 1) |->
                      LET call == SeqRemove(inflight, pos)[p]
                      IN  IF call.race = inflight[pos].race
                          THEN [call EXCEPT !.race = 0] ELSE call]
    /\ timers' = IF inflight[pos].race # 0
                 THEN Append(timers, [c |-> inflight[pos].c])
                 ELSE timers

PassesInFlight == Cardinality(initPasses) + Cardinality(estPasses)

\* ------------------------------------------------------------------- Init
\* the credit handlers before any call
IdleLedger ==
    /\ credits = InitialCredits
    /\ profile = InitialCredits
    /\ closureProfile = InitialCredits
    /\ debits = <<>>
    /\ transactions = <<>>
    /\ lastToast = NoToast
    /\ upscaled = FALSE
    /\ processedImageUrl = FALSE
    /\ user = TRUE
    /\ gate = "none"

\* the remote client before a call
IdleClient ==
    /\ file = [isImage |-> TRUE, size |-> 1]
    /\ clientPc = "idle"
    /\ events = <<>>
    /\ requests = 0
    /\ cause = "none"
    /\ thrown = NoError
    /\ lastPercent = 0

\* the estimator before a call
IdleEstimate ==
    /\ estInput = [readable |-> TRUE, width |-> 1, height |-> 1, scale |-> DefaultScale]
    /\ estResults = <<>>

Init ==
    /\ images \in {[k \in 1..n |-> k] : n \in 1..MaxImages}
    /\ processedImages = <<>>
    /\ selectedScale = DefaultScale
    /\ isProcessing = FALSE
    /\ isPaused = FALSE
    /\ isPausedRef = FALSE
    /\ maxConcurrentProcessing = DefaultConcurrency
    /\ inflight = <<>>
    /\ timers = <<>>
    /\ initPasses = {[scale |-> DefaultScale, cause |-> "images"]}
    /\ estTimer = NoTimer
    /\ estPasses = {}
    /\ lastCall = None
    /\ completeCalls = 0
    /\ clicks = 0
    /\ scaleChanges = 0
    /\ edits = 0
    /\ IdleLedger
    /\ IdleClient
    /\ IdleEstimate

\* ---------------------------------------------------------------- actions
\* initializeImages resumes after its estimates and writes the list
InitializeImagesDone(p) ==
    /\ p \in initPasses
    /\ initPasses' = initPasses \ {p}
    /\ processedImages' = initializeImages(images, p.scale)
    /\ estTimer' = EstTimerAfter(processedImages', selectedScale, isProcessing)
    /\ lastCall' = None
    /\ UNCHANGED <<edits, ledgerVars, clientVars, estimateVars>>
    /\ UNCHANGED <<images, selectedScale, isProcessing, isPaused, isPausedRef,
                   maxConcurrentProcessing, inflight, timers, estPasses,
                   completeCalls, clicks, scaleChanges>>

\* the debounce timeout fires and updateEstimates starts on its snapshot
UpdateEstimatesStart ==
    /\ estTimer.armed
    /\ PassesInFlight < MaxPasses
    /\ estPasses' = estPasses \cup {[snap |-> estTimer.snap, scale |-> estTimer.scale]}
    /\ estTimer' = NoTimer
    /\ lastCall' = None
    /\ UNCHANGED <<edits, ledgerVars, clientVars, estimateVars>>
    /\ UNCHANGED <<images, processedImages, selectedScale, isProcessing, isPaused,
                   isPausedRef, maxConcurrentProcessing, inflight, timers,
                   initPasses, completeCalls, clicks, scaleChanges>>

\* updateEstimates resumes after its estimates and writes the list
UpdateEstimatesDone(p) ==
    /\ p \in estPasses
    /\ estPasses' = estPasses \ {p}
    /\ processedImages' = updateEstimates(p.snap, p.scale)
    /\ estTimer' = EstTimerAfter(processedImages', selectedScale, isProcessing)
    /\ lastCall' = None
    /\ UNCHANGED <<edits, ledgerVars, clientVars, estimateVars>>
    /\ UNCHANGED <<images, selectedScale, isProcessing, isPaused, isPausedRef,
                   maxConcurrentProcessing, inflight, timers, initPasses,
                   completeCalls, clicks, scaleChanges>>

\* the scale selector (disabled while isProcessing)
SetSelectedScale(s) ==
    /\ ~isProcessing
    /\ scaleChanges < MaxScaleChanges
    /\ Len(images) <= MaxScaleImages
    /\ PassesInFlight < MaxPasses
    /\ s \in ScaleOptions \ {selectedScale}
    /\ selectedScale' = s
    /\ initPasses' = IF Len(images) > 0
                     THEN initPasses \cup {[scale |-> s, cause |-> "scale"]}
                     ELSE initPasses
    /\ estTimer' = EstTimerAfter(processedImages, s, isProcessing)
    /\ lastCall' = None
    /\ scaleChanges' = scaleChanges + 1
    /\ UNCHANGED <<edits, ledgerVars, clientVars, estimateVars>>
    /\ UNCHANGED <<images, processedImages, isProcessing, isPaused, isPausedRef,
                   maxConcurrentProcessing, inflight, timers, estPasses, completeCalls,
                   clicks>>

\* the concurrency selector (disabled while isProcessing)
SetMaxConcurrentProcessing(c) ==
    /\ ~isProcessing
    /\ c \in ConcurrencyOptions \ {maxConcurrentProcessing}
    /\ maxConcurrentProcessing' = c
    /\ lastCall' = None
    /\ UNCHANGED <<edits, ledgerVars, clientVars, estimateVars>>
    /\ UNCHANGED <<images, processedImages, selectedScale, isProcessing, isPaused,
                   isPausedRef, inflight, timers, initPasses, estTimer, estPasses,
                   completeCalls, clicks, scaleChanges>>

\* the Start button
handleStartProcessing ==
    /\ ~isProcessing
    /\ Len(processedImages) # 0
    /\ StatusCount(processedImages, "completed") # Len(processedImages)
    /\ clicks < MaxClicks
    /\ LET run == startParallelProcessing(processedImages, maxConcurrentProcessing, isPausedRef)
       IN  /\ processedImages' = run.list
           /\ inflight' = inflight \o run.calls
           /\ isProcessing' = ~run.finished
           /\ lastCall' = CompleteCall(run)
           /\ completeCalls' = IF run.finished THEN 1 ELSE 0
           /\ estTimer' = EstTimerAfter(run.list, selectedScale, ~run.finished)
    /\ isPaused' = FALSE
    /\ isPausedRef' = FALSE
    /\ clicks' = clicks + 1
    /\ UNCHANGED <<edits, ledgerVars, clientVars, estimateVars>>
    /\ UNCHANGED <<images, selectedScale, maxConcurrentProcessing, timers,
                   initPasses, estPasses, scaleChanges>>

\* the Pause / Resume button (shown while isProcessing)
handlePauseResume ==
    /\ isProcessing
    /\ clicks < MaxClicks
    /\ LET run == IF isPaused
                  THEN startParallelProcessing(processedImages, maxConcurrentProcessing, isPausedRef)
                  ELSE [list |-> processedImages, calls |-> <<>>, finished |-> FALSE]
       IN  /\ processedImages' = run.list
           /\ inflight' = inflight \o run.calls
           /\ isProcessing' = ~run.finished
           /\ lastCall' = CompleteCall(run)
           /\ completeCalls' = IF run.finished THEN completeCalls + 1 ELSE completeCalls
           /\ estTimer' = EstTimerAfter(run.list, selectedScale, ~run.finished)
    /\ isPaused' = ~isPaused
    /\ isPausedRef' = ~isPaused
    /\ clicks' = clicks + 1
    /\ UNCHANGED <<edits, ledgerVars, clientVars, estimateVars>>
    /\ UNCHANGED <<images, selectedScale, maxConcurrentProcessing, timers,
                   initPasses, estPasses, scaleChanges>>

\* the Retry Failed button (shown when a job failed, disabled while isProcessing)
RetryFailed ==
    /\ ~isProcessing
    /\ StatusCount(processedImages, "failed") > 0
    /\ clicks < MaxClicks
    /\ processedImages' = handleRetryFailed(processedImages)
    /\ lastCall' = None
    /\ clicks' = clicks + 1
    /\ UNCHANGED <<edits, ledgerVars, clientVars, estimateVars>>
    /\ UNCHANGED <<images, selectedScale, isProcessing, isPaused, isPausedRef,
                   maxConcurrentProcessing, inflight, timers, initPasses, estTimer,
                   estPasses, completeCalls, scaleChanges>>

\* the re-admission timer fires
TimerFire(t) ==
    /\ t \in 1..Len(timers)
    /\ timers' = SeqRemove(timers, t)
    /\ LET run == startParallelProcessing(processedImages, timers[t].c, isPausedRef)
       IN  /\ processedImages' = run.list
           /\ inflight' = inflight \o run.calls
           /\ isProcessing' = (isProcessing /\ ~run.finished)
           /\ lastCall' = CompleteCall(run)
           /\ completeCalls' = IF run.finished THEN completeCalls + 1 ELSE completeCalls
           /\ estTimer' = EstTimerAfter(run.list, selectedScale, isProcessing /\ ~run.finished)
    /\ UNCHANGED <<edits, ledgerVars, clientVars, estimateVars>>
    /\ UNCHANGED <<images, selectedScale, isPaused, isPausedRef,
                   maxConcurrentProcessing, initPasses, estPasses, clicks, scaleChanges>>

\* axios reports upload progress: Math.min(percent * 0.3, 30)
UploadProgress(pos, percent) ==
    /\ pos \in 1..Len(inflight)
    /\ Len(images) <= MaxProgressImages
    /\ inflight[pos].phase = "upload"
    /\ processedImages' = progressCallback(processedImages, inflight[pos].index,
                                           Min(percent * 3, 300))
    /\ lastCall' = None
    /\ UNCHANGED <<edits, ledgerVars, clientVars, estimateVars>>
    /\ UNCHANGED <<images, selectedScale, isProcessing, isPaused, isPausedRef,
                   maxConcurrentProcessing, inflight, timers, initPasses, estTimer,
                   estPasses, completeCalls, clicks, scaleChanges>>

\* axios reports download progress: 30 + Math.min(percent * 0.7, 70)
DownloadProgress(pos, percent) ==
    /\ pos \in 1..Len(inflight)
    /\ Len(images) <= MaxProgressImages
    /\ inflight' = [inflight EXCEPT ![pos].phase = "download"]
    /\ processedImages' = progressCallback(processedImages, inflight[pos].index,
                                           300 + Min(percent * 7, 700))
    /\ lastCall' = None
    /\ UNCHANGED <<edits, ledgerVars, clientVars, estimateVars>>
    /\ UNCHANGED <<images, selectedScale, isProcessing, isPaused, isPausedRef,
                   maxConcurrentProcessing, timers, initPasses, estTimer,
                   estPasses, completeCalls, clicks, scaleChanges>>

\* the remote call succeeds: the 'completed' progress event, the completed
\* record written at its index, the debit
RemoteSuccess(pos) ==
    /\ pos \in 1..Len(inflight)
    /\ LET call == inflight[pos]
       IN  /\ processedImages' = WriteAt(progressCallback(processedImages, call.index, 1000),
                                         call.index, completedImage(call))
           /\ lastCall' = [kind |-> "debit", index |-> call.index, amount |-> creditsUsed(call)]
    /\ AfterCall(pos)
    /\ UNCHANGED <<edits, ledgerVars, clientVars, estimateVars>>
    /\ UNCHANGED <<images, selectedScale, isProcessing, isPaused, isPausedRef,
                   maxConcurrentProcessing, initPasses, estTimer, estPasses,
                   completeCalls, clicks, scaleChanges>>

\* the remote call fails: the 'failed' progress event (progress 0), the failed
\* record written at its index, no debit
RemoteFailure(pos) ==
    /\ pos \in 1..Len(inflight)
    /\ LET call == inflight[pos]
       IN  processedImages' = WriteAt(progressCallback(processedImages, call.index, 0),
                                      call.index, failedImage(call))
    /\ lastCall' = None
    /\ AfterCall(pos)
    /\ UNCHANGED <<edits, ledgerVars, clientVars, estimateVars>>
    /\ UNCHANGED <<images, selectedScale, isProcessing, isPaused, isPausedRef,
                   maxConcurrentProcessing, initPasses, estTimer, estPasses,
                   completeCalls, clicks, scaleChanges>>

\* ------------------------------------------- the credit handlers of the page
\* A click on Start (multi image mode) or Upscale (single image mode) runs
\* the handlers of the render it was made in, and the timer chain of
\* startParallelProcessing keeps calling itself in that closure: every
\* onCreditDeduction / onProcessingComplete call of the run sees the
\* profile of that render.
CaptureHandlers ==
    /\ closureProfile # profile
    /\ closureProfile' = profile
    /\ UNCHANGED <<credits, profile, debits, transactions, lastToast, upscaled,
                   processedImageUrl>>
    /\ UNCHANGED <<schedulerVars, edits, clientVars, estimateVars, singleVars>>

\* a credit handler up to its first await: the new balance is computed from
\* the profile of the closure and the update request is sent
StartDebit(kind, amount) ==
    debits' = Append(debits, [kind |-> kind, amount |-> amount,
                              value |-> closureProfile - amount,
                              pc |-> "update", updated |-> FALSE])

\* processImageAtIndex calls onCreditDeduction(creditsUsed): handleCreditDeduction
handleCreditDeduction(amount) ==
    /\ Len(debits) < MaxDebits
    /\ StartDebit("batch", amount)
    /\ UNCHANGED <<credits, profile, closureProfile, transactions, lastToast,
                   upscaled, processedImageUrl>>
    /\ UNCHANGED <<schedulerVars, edits, clientVars, estimateVars, singleVars>>

\* single image mode: upscaleImage returned and ImageProcessor calls
\* onProcessingComplete(blob, scale): handleProcessingComplete, which debits 1
handleProcessingComplete ==
    /\ Len(debits) < MaxDebits
    /\ ~upscaled
    /\ upscaled' = TRUE
    /\ StartDebit("single", 1)
    /\ UNCHANGED <<credits, profile, closureProfile, transactions, lastToast,
                   processedImageUrl>>
    /\ UNCHANGED <<schedulerVars, edits, clientVars, estimateVars, singleVars>>

\* the catch block of the handler
DebitFails(d) ==
    /\ debits' = [debits EXCEPT ![d].pc = "failed"]
    /\ lastToast' = IF debits[d].kind = "single" THEN ProcessingErrorToast
                    ELSE DeductionErrorToast
    /\ UNCHANGED <<credits, profile, closureProfile, transactions, upscaled,
                   processedImageUrl>>
    /\ UNCHANGED <<schedulerVars, edits, clientVars, estimateVars, singleVars>>

\* profiles.update({credits: ...}) answers
ProfileUpdated(d) ==
    /\ d \in 1..Len(debits) /\ debits[d].pc = "update"
    /\ credits' = debits[d].value
    /\ debits' = [debits EXCEPT ![d].pc = "insert", ![d].updated = TRUE]
    /\ UNCHANGED <<profile, closureProfile, transactions, lastToast, upscaled,
                   processedImageUrl>>
    /\ UNCHANGED <<schedulerVars, edits, clientVars, estimateVars, singleVars>>

ProfileUpdateFails(d) ==
    /\ d \in 1..Len(debits) /\ debits[d].pc = "update"
    /\ DebitFails(d)

\* transactions.insert({type: 'usage', amount: -amount}) answers
TransactionInserted(d) ==
    /\ d \in 1..Len(debits) /\ debits[d].pc = "insert"
    /\ transactions' = Append(transactions, debits[d].amount)
    /\ debits' = [debits EXCEPT ![d].pc = "refresh"]
    /\ UNCHANGED <<credits, profile, closureProfile, lastToast, upscaled,
                   processedImageUrl>>
    /\ UNCHANGED <<schedulerVars, edits, clientVars, estimateVars, singleVars>>

TransactionInsertFails(d) ==
    /\ d \in 1..Len(debits) /\ debits[d].pc = "insert"
    /\ DebitFails(d)

\* refreshProfile resolves: the page holds the stored balance again; in single
\* image mode the handler then shows the processed image
ProfileRefreshed(d) ==
    /\ d \in 1..Len(debits) /\ debits[d].pc = "refresh"
    /\ profile' = credits
    /\ debits' = [debits EXCEPT ![d].pc = "done"]
    /\ processedImageUrl' = (processedImageUrl \/ debits[d].kind = "single")
    /\ lastToast' = IF debits[d].kind = "single" THEN UpscaledToast ELSE lastToast
    /\ UNCHANGED <<credits, closureProfile, transactions, upscaled>>
    /\ UNCHANGED <<schedulerVars, edits, clientVars, estimateVars, singleVars>>

\* no execution of a credit handler is under way
LedgerSettled == \A d \in 1..Len(debits) : debits[d].pc \in {"done", "failed"}

\* ------------------------------------ one call of upscaleImage for one job
\* variant: no validation
ValidFile_Any(f) == TRUE

\* the validation of upscaleImage: an image type, at most 10 MiB
ValidFile(f) == f.isImage /\ f.size <= MaxSizeInBytes

\* the message upscaleImage rejects with, by what made the call fail: a
\* failed validation and any other error that is not an axios error keep the
\* initial errorMessage; axios errors are told apart by status and code
errorMessage(c) ==
    CASE c = "http400" -> "Invalid image or parameters. Please check your image and try again."
      [] c = "http401" -> "Authentication failed. Please check your API key."
      [] c = "http402" -> "Insufficient credits on Stability AI account."
      [] c = "http429" -> "Rate limit exceeded. Please wait and try again."
      [] c = "timeout" -> "Request timed out. Please try with a smaller image."
      [] c = "http500" -> "API Error (500)"
      [] c = "network" -> "API Error (undefined)"
      [] OTHER -> UpscaleError

ValidationCauses == {"fileType", "fileSize"}
RequestCauses == {"http400", "http401", "http402", "http429", "timeout", "http500",
                  "network", "nonAxios"}

\* the call of the job's only record, as startParallelProcessing makes it
ClientCall ==
    [index |-> 1, imageToProcess |-> processedImages[1], race |-> 1,
     c |-> maxConcurrentProcessing, phase |-> "upload"]

ProgressEvent(tenths, status, message) ==
    [progress |-> tenths, status |-> status, message |-> message]

\* the catch block of upscaleImage and then of processImageAtIndex: the
\* 'failed' event, the rejection, the failed record, no debit
UpscaleFails(list, call, c) ==
    /\ cause' = c
    /\ thrown' = errorMessage(c)
    /\ events' = Append(events, ProgressEvent(0, "failed", errorMessage(c)))
    /\ processedImages' = WriteAt(progressCallback(list, call.index, 0), call.index,
                                  [failedImage(call) EXCEPT !.error = errorMessage(c)])
    /\ clientPc' = "failed"
    /\ inflight' = <<>>
    /\ lastCall' = None

\* Start on a batch of one image: the job is admitted and upscaleImage runs
\* up to its await; a file that fails the validation is rejected in the same task
upscaleImage ==
    /\ clientPc = "idle"
    /\ isProcessing' = TRUE
    /\ clicks' = clicks + 1
    /\ IF ValidFile(file)
       THEN /\ processedImages' = processImageAtIndex(processedImages, 1)
            /\ events' = <<ProgressEvent(InitialProgress * 10, "processing",
                                         "Sending image to Stability AI Fast Upscaler...")>>
            /\ requests' = requests + 1
            /\ inflight' = <<ClientCall>>
            /\ clientPc' = "upload"
            /\ lastCall' = None
            /\ UNCHANGED <<cause, thrown>>
       ELSE /\ UpscaleFails([processedImages EXCEPT ![1].status = "processing",
                                                    ![1].progress = 0],
                            ClientCall, IF file.isImage THEN "fileSize" ELSE "fileType")
            /\ UNCHANGED requests
    /\ UNCHANGED <<file, lastPercent>>
    /\ UNCHANGED <<images, selectedScale, isPaused, isPausedRef, maxConcurrentProcessing,
                   timers, initPasses, estTimer, estPasses, completeCalls, scaleChanges>>
    /\ UNCHANGED <<edits, ledgerVars, estimateVars>>

\* onUploadProgress: Math.min(progress * 0.3, 30)
onUploadProgress(percent) ==
    /\ clientPc = "upload"
    /\ percent > lastPercent
    /\ lastPercent' = percent
    /\ events' = Append(events, ProgressEvent(Min(percent * 3, 300), "processing",
                                              "Uploading image..."))
    /\ processedImages' = progressCallback(processedImages, 1, Min(percent * 3, 300))
    /\ lastCall' = None
    /\ UNCHANGED <<file, clientPc, requests, cause, thrown>>
    /\ UNCHANGED <<images, selectedScale, isProcessing, isPaused, isPausedRef,
                   maxConcurrentProcessing, inflight, timers, initPasses, estTimer,
                   estPasses, completeCalls, clicks, scaleChanges>>
    /\ UNCHANGED <<edits, ledgerVars, estimateVars>>

\* onDownloadProgress: 30 + Math.min(progress * 0.7, 70)
onDownloadProgress(percent) ==
    /\ clientPc \in {"upload", "download"}
    /\ clientPc = "download" => percent > lastPercent
    /\ clientPc' = "download"
    /\ lastPercent' = percent
    /\ events' = Append(events, ProgressEvent(300 + Min(percent * 7, 700), "processing",
                                              "Fast upscaling and downloading image..."))
    /\ processedImages' = progressCallback(processedImages, 1, 300 + Min(percent * 7, 700))
    /\ lastCall' = None
    /\ UNCHANGED <<file, requests, cause, thrown>>
    /\ UNCHANGED <<images, selectedScale, isProcessing, isPaused, isPausedRef,
                   maxConcurrentProcessing, inflight, timers, initPasses, estTimer,
                   estPasses, completeCalls, clicks, scaleChanges>>
    /\ UNCHANGED <<edits, ledgerVars, estimateVars>>

\* axios.post resolves: the 'completed' event, the completed record, the debit
upscaleResolves ==
    /\ clientPc \in {"upload", "download"}
    /\ clientPc' = "done"
    /\ events' = Append(events, ProgressEvent(1000, "completed",
                                              "Image fast upscaled successfully!"))
    /\ processedImages' = WriteAt(progressCallback(processedImages, 1, 1000), 1,
                                  completedImage(inflight[1]))
    /\ lastCall' = [kind |-> "debit", index |-> 1, amount |-> creditsUsed(inflight[1])]
    /\ inflight' = <<>>
    /\ UNCHANGED <<file, requests, cause, thrown, lastPercent>>
    /\ UNCHANGED <<images, selectedScale, isProcessing, isPaused, isPausedRef,
                   maxConcurrentProcessing, timers, initPasses, estTimer,
                   estPasses, completeCalls, clicks, scaleChanges>>
    /\ UNCHANGED <<edits, ledgerVars, estimateVars>>

\* axios.post rejects, or something else throws while the request is out
upscaleRejects(c) ==
    /\ clientPc \in {"upload", "download"}
    /\ UpscaleFails(processedImages, inflight[1], c)
    /\ UNCHANGED <<file, requests, lastPercent>>
    /\ UNCHANGED <<images, selectedScale, isProcessing, isPaused, isPausedRef,
                   maxConcurrentProcessing, timers, initPasses, estTimer,
                   estPasses, completeCalls, clicks, scaleChanges>>
    /\ UNCHANGED <<edits, ledgerVars, estimateVars>>

\* ------------------------------------------- the page in multi image mode
\* Index.isProcessing, which disables the uploader: in multi image mode no
\* handler sets it (only handleStartProcessing of the single image mode does)
IndexIsProcessing == FALSE

\* an id no uploaded image has
NewImageId == CHOOSE id \in 1..MaxImages : \A k \in 1..Len(images) : images[k] # id

\* the render after setUploadedImages(imgs): MultiImageProcessor is rendered
\* while there is an image, and its initializeImages effect runs for the new
\* list; with no image left it is unmounted and its state is gone
ImagesChange(imgs) ==
    /\ ~IndexIsProcessing
    /\ edits < MaxEdits
    /\ edits' = edits + 1
    /\ images' = imgs
    /\ lastCall' = None
    /\ IF Len(imgs) > 0
       THEN /\ PassesInFlight < MaxPasses
            /\ initPasses' = initPasses \cup {[scale |-> selectedScale, cause |-> "images"]}
            /\ UNCHANGED <<processedImages, selectedScale, isProcessing, isPaused,
                           isPausedRef, maxConcurrentProcessing, estTimer, estPasses>>
       ELSE /\ Len(inflight) + Len(timers) <= MaxOrphanCalls
            /\ initPasses' = {}
            /\ estPasses' = {}
            /\ estTimer' = NoTimer
            /\ processedImages' = <<>>
            /\ selectedScale' = DefaultScale
            /\ maxConcurrentProcessing' = DefaultConcurrency
            /\ isProcessing' = FALSE
            /\ isPaused' = FALSE
            /\ isPausedRef' = FALSE
    /\ UNCHANGED <<inflight, timers, completeCalls, clicks, scaleChanges>>
    /\ UNCHANGED <<ledgerVars, clientVars, estimateVars>>

\* the uploader adds an image (up to maxImages)
handleImagesUpload ==
    /\ Len(images) < MaxImages
    /\ ImagesChange(Append(images, NewImageId))

\* the remove button of an uploaded image
handleRemoveImage(id) ==
    /\ \E k \in 1..Len(images) : images[k] = id
    /\ ImagesChange(SelectSeq(images, LAMBDA x : x # id))

\* the Clear All button
handleClearImages ==
    /\ Len(images) > 0
    /\ ImagesChange(<<>>)

Next ==
    \/ \E p \in initPasses : InitializeImagesDone(p)
    \/ UpdateEstimatesStart
    \/ \E p \in estPasses : UpdateEstimatesDone(p)
    \/ \E s \in ScaleOptions : SetSelectedScale(s)
    \/ \E c \in ConcurrencyOptions : SetMaxConcurrentProcessing(c)
    \/ handleStartProcessing
    \/ handlePauseResume
    \/ RetryFailed
    \/ \E t \in 1..Len(timers) : TimerFire(t)
    \/ \E pos \in 1..Len(inflight) : UploadProgress(pos, 3)
    \/ \E pos \in 1..Len(inflight) : DownloadProgress(pos, 100)
    \/ \E pos \in 1..Len(inflight) : RemoteSuccess(pos)
    \/ \E pos \in 1..Len(inflight) : RemoteFailure(pos)

Spec == Init /\ [][Next]_vars

\* a batch run by the buttons of the processor alone: the images are
\* initialized, the scale and the concurrency are left as they are and the
\* debounced estimate refresh is not under way
RunNext ==
    \/ \E p \in initPasses : InitializeImagesDone(p)
    \/ handleStartProcessing
    \/ handlePauseResume
    \/ RetryFailed
    \/ \E t \in 1..Len(timers) : TimerFire(t)
    \/ \E pos \in 1..Len(inflight) : RemoteSuccess(pos)
    \/ \E pos \in 1..Len(inflight) : RemoteFailure(pos)

RunSpec == Init /\ [][RunNext]_vars

\* the uploader of the page together with the steps of a batch run by one
\* click on Start
PageNext ==
    \/ \E p \in initPasses : InitializeImagesDone(p)
    \/ handleStartProcessing
    \/ \E t \in 1..Len(timers) : TimerFire(t)
    \/ \E pos \in 1..Len(inflight) : RemoteSuccess(pos)
    \/ \E pos \in 1..Len(inflight) : RemoteFailure(pos)
    \/ handleImagesUpload
    \/ \E id \in 1..MaxImages : handleRemoveImage(id)
    \/ handleClearImages

PageSpec == Init /\ [][PageNext]_vars

\* no batch on the page: the scheduler as it is without uploaded images
NoBatch ==
    /\ images = <<>>
    /\ processedImages = <<>>
    /\ selectedScale = DefaultScale
    /\ isProcessing = FALSE
    /\ isPaused = FALSE
    /\ isPausedRef = FALSE
    /\ maxConcurrentProcessing = DefaultConcurrency
    /\ inflight = <<>>
    /\ timers = <<>>
    /\ initPasses = {}
    /\ estTimer = NoTimer
    /\ estPasses = {}
    /\ lastCall = None
    /\ completeCalls = 0
    /\ clicks = 0
    /\ scaleChanges = 0
    /\ edits = 0

\* the credit handlers, called by the jobs that complete
LedgerInit == NoBatch /\ IdleLedger /\ IdleClient /\ IdleEstimate

LedgerNext ==
    \/ CaptureHandlers
    \/ \E amount \in DebitAmounts : handleCreditDeduction(amount)
    \/ handleProcessingComplete
    \/ \E d \in 1..Len(debits) : ProfileUpdated(d)
    \/ \E d \in 1..Len(debits) : ProfileUpdateFails(d)
    \/ \E d \in 1..Len(debits) : TransactionInserted(d)
    \/ \E d \in 1..Len(debits) : TransactionInsertFails(d)
    \/ \E d \in 1..Len(debits) : ProfileRefreshed(d)

LedgerSpec == LedgerInit /\ [][LedgerNext]_vars

\* the files handed to upscaleImage
Files == [isImage : BOOLEAN, size : {1024, MaxSizeInBytes, MaxSizeInBytes + 1}]

\* a batch of one image, initialized and not started, and the file behind it
ClientInit ==
    /\ images = <<1>>
    /\ processedImages = initializeImages(<<1>>, DefaultScale)
    /\ selectedScale = DefaultScale
    /\ isProcessing = FALSE
    /\ isPaused = FALSE
    /\ isPausedRef = FALSE
    /\ maxConcurrentProcessing = DefaultConcurrency
    /\ inflight = <<>>
    /\ timers = <<>>
    /\ initPasses = {}
    /\ estTimer = NoTimer
    /\ estPasses = {}
    /\ lastCall = None
    /\ completeCalls = 0
    /\ clicks = 0
    /\ scaleChanges = 0
    /\ edits = 0
    /\ IdleLedger
    /\ IdleEstimate
    /\ file \in Files
    /\ clientPc = "idle"
    /\ events = <<>>
    /\ requests = 0
    /\ cause = "none"
    /\ thrown = NoError
    /\ lastPercent = 0

ClientNext ==
    \/ upscaleImage
    \/ \E percent \in Percents : onUploadProgress(percent)
    \/ \E percent \in Percents : onDownloadProgress(percent)
    \/ upscaleResolves
    \/ \E c \in RequestCauses : upscaleRejects(c)

ClientSpec == ClientInit /\ [][ClientNext]_vars

\* ------------------------------------------------- the single image mode
\* handleStartProcessing of the page: what it does with a request
StartGate(u, balance) ==
    IF ~u THEN "authRequired"
    ELSE IF balance < 1 THEN "insufficient"
    ELSE "accepted"

Rejected == {"authRequired", "insufficient"}

\* the Upscale button of ImageProcessor (rendered for a signed-in user): it
\* calls onStartProcessing, which returns nothing, and goes on to
\* stabilityAI.upscaleImage, which runs up to its await
handleUpscale ==
    /\ user
    /\ clicks < MaxUpscales
    /\ clientPc \in {"idle", "done", "failed"}
    /\ LedgerSettled
    /\ clicks' = clicks + 1
    /\ gate' = StartGate(user, profile)
    /\ closureProfile' = profile
    /\ upscaled' = FALSE
    /\ requests' = requests + 1
    /\ clientPc' = "upload"
    /\ events' = <<ProgressEvent(InitialProgress * 10, "processing",
                                 "Sending image to Stability AI Fast Upscaler...")>>
    /\ cause' = "none"
    /\ thrown' = NoError
    /\ lastPercent' = 0
    /\ UNCHANGED <<file, user, credits, profile, debits, transactions, lastToast,
                   processedImageUrl>>
    /\ UNCHANGED <<images, processedImages, selectedScale, isProcessing, isPaused,
                   isPausedRef, maxConcurrentProcessing, inflight, timers, initPasses,
                   estTimer, estPasses, lastCall, completeCalls, scaleChanges>>
    /\ UNCHANGED <<edits, estimateVars>>

\* upscaleImage resolves and handleUpscale calls onProcessingComplete:
\* handleProcessingComplete runs up to its first await
handleUpscaleResolves ==
    /\ gate # "none"
    /\ clientPc = "upload"
    /\ clientPc' = "done"
    /\ events' = Append(events, ProgressEvent(1000, "completed",
                                              "Image fast upscaled successfully!"))
    /\ upscaled' = TRUE
    /\ StartDebit("single", 1)
    /\ UNCHANGED <<file, requests, cause, thrown, lastPercent>>
    /\ UNCHANGED <<credits, profile, closureProfile, transactions, lastToast,
                   processedImageUrl, singleVars>>
    /\ UNCHANGED <<schedulerVars, edits, estimateVars>>

\* upscaleImage rejects: handleUpscale reports the error, nothing is debited
handleUpscaleRejects(c) ==
    /\ gate # "none"
    /\ clientPc = "upload"
    /\ clientPc' = "failed"
    /\ cause' = c
    /\ thrown' = errorMessage(c)
    /\ events' = Append(events, ProgressEvent(0, "failed", errorMessage(c)))
    /\ UNCHANGED <<file, requests, lastPercent>>
    /\ UNCHANGED <<schedulerVars, edits, ledgerVars, estimateVars>>

\* the page of a visitor or of a signed-in user with a small balance
SingleInit ==
    /\ NoBatch
    /\ IdleClient
    /\ IdleEstimate
    /\ user \in BOOLEAN
    /\ credits \in 0..MaxStartCredits
    /\ profile = credits
    /\ closureProfile = credits
    /\ debits = <<>>
    /\ transactions = <<>>
    /\ lastToast = NoToast
    /\ upscaled = FALSE
    /\ processedImageUrl = FALSE
    /\ gate = "none"

SingleNext ==
    \/ handleUpscale
    \/ handleUpscaleResolves
    \/ \E c \in RequestCauses : handleUpscaleRejects(c)
    \/ \E d \in 1..Len(debits) : ProfileUpdated(d)
    \/ \E d \in 1..Len(debits) : ProfileUpdateFails(d)
    \/ \E d \in 1..Len(debits) : TransactionInserted(d)
    \/ \E d \in 1..Len(debits) : TransactionInsertFails(d)
    \/ \E d \in 1..Len(debits) : ProfileRefreshed(d)

SingleSpec == SingleInit /\ [][SingleNext]_vars

\* ------------------------------------------------------ the credit estimator
\* the images and scales handed to estimateCreditCost
EstimateInputs ==
    [readable : BOOLEAN, width : PixelSizes, height : PixelSizes, scale : ScaleOptions]

\* estimateCreditCost resolves: with the estimate of img.onload for an image
\* whose dimensions can be read, through img.onerror otherwise (it never
\* rejects, so the .catch fallbacks of its callers do not run)
estimateCreditCostResolves ==
    /\ Len(estResults) < MaxEstimateCalls
    /\ estResults' = Append(estResults,
                            IF estInput.readable
                            THEN creditsOnLoad(estInput.width, estInput.height, estInput.scale)
                            ELSE creditsOnError)
    /\ UNCHANGED <<estInput, schedulerVars, edits, ledgerVars, clientVars>>

EstimateInit ==
    /\ NoBatch
    /\ IdleLedger
    /\ IdleClient
    /\ estInput \in EstimateInputs
    /\ estResults = <<>>

EstimateNext == estimateCreditCostResolves

EstimateSpec == EstimateInit /\ [][EstimateNext]_vars

\* the remote call ends (success, error or the 45 s timeout), armed timers fire
\* and the images of an estimation pass load
FairSpec ==
    /\ Spec
    /\ WF_vars(\E pos \in 1..Len(inflight) : RemoteSuccess(pos) \/ RemoteFailure(pos))
    /\ WF_vars(\E t \in 1..Len(timers) : TimerFire(t))
    /\ WF_vars(\E p \in initPasses : InitializeImagesDone(p))
    /\ WF_vars(UpdateEstimatesStart)
    /\ WF_vars(\E p \in estPasses : UpdateEstimatesDone(p))

\* RunSpec where the remote calls end and armed timers fire
FairRunSpec ==
    /\ RunSpec
    /\ WF_vars(\E pos \in 1..Len(inflight) : RemoteSuccess(pos) \/ RemoteFailure(pos))
    /\ WF_vars(\E t \in 1..Len(timers) : TimerFire(t))
    /\ WF_vars(\E p \in initPasses : InitializeImagesDone(p))

\* ------------------------------------------------------------- properties
Status(k) == processedImages[k].status
Jobs == 1..Len(processedImages)
Terminal == {"completed", "failed"}
Admitted(k) == Status(k) = "pending" /\ processedImages'[k].status = "processing"

\* the refs mirror the state between tasks; the list is empty or holds one
\* record per image
TypeOK ==
    /\ Len(processedImages) \in {0, Len(images)}
    /\ isPausedRef = isPaused

\* C1: at most maxConcurrentProcessing job records are 'processing'
C1_ConcurrencyBound == processingCount(processedImages) <= maxConcurrentProcessing

\* the cap is reached while a job still waits
C1_Witness ==
    /\ processingCount(processedImages) = maxConcurrentProcessing
    /\ Len(pendingIndices(processedImages)) > 0

\* a started batch that has come to rest: every record terminal, no remote
\* call in flight, no re-admission timer armed
RunSettled ==
    /\ Len(processedImages) > 0
    /\ \A k \in Jobs : Status(k) \in Terminal
    /\ inflight = <<>>
    /\ timers = <<>>

\* C2: once every record of a batch started by one click on Start (never
\* paused, never retried) is terminal and nothing of the run is left to
\* happen, onProcessingComplete has been invoked exactly once
C2_CompletionFiresOnce == (RunSettled /\ clicks = 1) => completeCalls = 1

\* C3: onProcessingComplete is invoked only when no record is pending or
\* processing, with the whole list, every record in a final status
C3_CompletionNeverEarly ==
    lastCall.kind = "complete" =>
        /\ lastCall.results = processedImages
        /\ Len(lastCall.results) = Len(images)
        /\ \A k \in Jobs : Status(k) \in Terminal

\* the batch-complete call of a batch with a completed and a failed job
C3_Witness ==
    /\ lastCall.kind = "complete"
    /\ \E k \in Jobs : Status(k) = "completed"
    /\ \E k \in Jobs : Status(k) = "failed"

\* C4: a task calls onCreditDeduction exactly when it takes a job from
\* 'processing' to 'completed', with that job's estimatedCredits
C4_DebitExactlyOnce ==
    [][\A k \in 1..Min(Len(processedImages), Len(processedImages')) :
         (lastCall' = [kind |-> "debit", index |-> k,
                       amount |-> processedImages'[k].estimatedCredits])
         <=> (Status(k) = "processing" /\ processedImages'[k].status = "completed")]_vars

\* C7: a job is admitted only if no job before it in the list stays pending
C7_FifoAdmission ==
    [][\A k \in 1..Min(Len(processedImages), Len(processedImages')) : Admitted(k) =>
         \A i \in 1..(k - 1) : processedImages'[i].status # "pending"]_vars

\* a completed before b, and c was admitted next
C7_Witness ==
    /\ Len(processedImages) >= 3
    /\ maxConcurrentProcessing = 2
    /\ Status(1) = "completed" /\ Status(2) = "processing" /\ Status(3) = "processing"

\* C8: a result is set exactly on completed records, an error exactly on
\* failed records
C8_TerminalExclusivity ==
    \A k \in Jobs :
        /\ processedImages[k].processed <=> Status(k) = "completed"
        /\ processedImages[k].error # NoError <=> Status(k) = "failed"

\* a completed record next to a retried one, after a batch with a failure
C8_Witness ==
    /\ \E k \in Jobs : Status(k) = "completed" /\ processedImages[k].processed
    /\ \E k \in Jobs : Status(k) = "pending" /\ processedImages[k].error = NoError
    /\ lastCall = None /\ completeCalls = 1 /\ clicks = 2 /\ ~isProcessing

\* admission is alive: a re-admission timer is armed, or a Promise.race of
\* startParallelProcessing still waits for its first call to finish
ChainAlive ==
    \/ timers # <<>>
    \/ \E pos \in 1..Len(inflight) : inflight[pos].race # 0

\* C6: a resume with pending jobs restarts admission: it admits a job, or
\* leaves admission alive to admit them later
C6_ResumeRestartsAdmission ==
    [][(isPaused /\ ~isPaused' /\ Len(pendingIndices(processedImages')) > 0)
         => (ChainAlive' \/ \E k \in Jobs : Admitted(k))]_vars

\* C10: the list written by the initializeImages pass of a scale change
\* leaves every 'processing' and 'completed' record as it was
C10_ScaleChangeConfined ==
    [][\A p \in initPasses \ initPasses' :
         p.cause = "scale" =>
             \A k \in Jobs : Status(k) \in {"processing", "completed"} =>
                 processedImages'[k] = processedImages[k]]_vars

\* a failing remote call leaves the other records and the run lock alone,
\* and settles its Promise.race as a succeeding call does
FailureFrame ==
    [][\A pos \in 1..Len(inflight) : RemoteFailure(pos) =>
         /\ \A k \in Jobs \ {inflight[pos].index} : processedImages'[k] = processedImages[k]
         /\ inflight[pos].race # 0 => Len(timers') = Len(timers) + 1
         /\ isProcessing' = isProcessing]_vars

\* C9: a failing remote call leaves the other records unchanged and the
\* loop running, and in a running batch with a failed job every pending job
\* is admitted (unless the user pauses)
C9_FailureIsolation ==
    /\ FailureFrame
    /\ \A k \in 1..MaxImages :
         (/\ k \in Jobs /\ Status(k) = "pending" /\ isProcessing /\ ~isPaused
          /\ \E j \in Jobs : Status(j) = "failed")
         ~> ((k \in Jobs /\ Status(k) # "pending") \/ isPaused)

\* C5: while the batch is paused no job is admitted, every 'processing' job
\* has its remote call in flight and free to end, and a call that ends takes
\* its job to 'completed' or 'failed'
C5_PauseBlocksAdmissionOnly ==
    [][isPaused =>
         /\ isPaused' =>
               \A k \in 1..Min(Len(processedImages), Len(processedImages')) : ~Admitted(k)
         /\ \A k \in Jobs : Status(k) = "processing" =>
               \E pos \in 1..Len(inflight) :
                   /\ inflight[pos].index = k
                   /\ ENABLED RemoteSuccess(pos)
                   /\ ENABLED RemoteFailure(pos)
         /\ \A pos \in 1..Len(inflight) :
               (RemoteSuccess(pos) \/ RemoteFailure(pos)) =>
                   processedImages'[inflight[pos].index].status \in Terminal]_vars

\* paused with a free slot: a job finished during the pause, its timer has
\* fired, and a pending job still waits
C5_Witness ==
    /\ isPaused
    /\ timers = <<>>
    /\ \E k \in Jobs : Status(k) \in Terminal
    /\ \E k \in Jobs : Status(k) = "pending"
    /\ processingCount(processedImages) < maxConcurrentProcessing

\* C12: Retry Failed turns every failed record into a pending one with
\* progress 0 and no error, leaves the other records as they are, and puts no
\* retried job at a list position before a job that was already pending
\* (admission takes the pending jobs in list order)
C12_RetryReentersFifo ==
    [][RetryFailed =>
         \A k \in Jobs :
            IF Status(k) = "failed"
            THEN /\ processedImages'[k] = [processedImages[k] EXCEPT
                        !.status = "pending", !.progress = 0, !.error = NoError]
                 /\ \A j \in Jobs : Status(j) = "pending" => j < k
            ELSE processedImages'[k] = processedImages[k]]_vars

\* the ids of the job records, in list order
RecordIds == [k \in Jobs |-> processedImages[k].id]

\* a batch is running: started, some job admitted, not yet complete
Running == isProcessing /\ \E k \in Jobs : Status(k) # "pending"

\* C11: while a batch is running the uploaded images and the job records stay
\* the same set: nothing is added, removed or re-created
C11_FixedRecordSet ==
    [][(Running /\ lastCall'.kind # "complete") =>
         (images' = images /\ RecordIds' = RecordIds)]_vars

\* the sum of the amounts whose balance update the store accepted
RECURSIVE AppliedUpTo(_)
AppliedUpTo(n) ==
    IF n = 0 THEN 0
    ELSE AppliedUpTo(n - 1) + (IF debits[n].updated THEN debits[n].amount ELSE 0)

\* C13: once the debits are through, the stored balance is the initial balance
\* minus the sum of the debited amounts
C13_LedgerAtomic == LedgerSettled => credits = InitialCredits - AppliedUpTo(Len(debits))

\* C14: when a debit fails after a completed upscale, a warning toast reports
\* it, and in single image mode the processed image is shown
C14_DebitFailureSurfaced ==
    [][\A d \in 1..Len(debits) :
         (debits[d].pc # "failed" /\ debits'[d].pc = "failed") =>
            /\ lastToast' \in {DeductionErrorToast, ProcessingErrorToast}
            /\ debits[d].kind = "single" => processedImageUrl']_vars

\* C15: the 'processing' events of one upscaleImage call never go down,
\* upload events lie in 0..30 and download events in 30..100, and a call that
\* succeeds ends with 100 (progress in tenths of a percent)
C15_ClientProgressMonotonic ==
    /\ \A i \in 1..Len(events) : \A j \in i..Len(events) :
          (events[i].status = "processing" /\ events[j].status = "processing")
             => events[i].progress <= events[j].progress
    /\ \A i \in 1..Len(events) :
          /\ events[i].message = "Uploading image..."
                => events[i].progress \in 0..300
          /\ events[i].message = "Fast upscaling and downloading image..."
                => events[i].progress \in 300..1000
    /\ clientPc = "done" => events[Len(events)].progress = 1000

\* C16: the stored progress of a job that stays 'processing' is an integer
\* in 0..100 and does not go down
C16_JobProgressMonotonic ==
    [][\A k \in 1..Min(Len(processedImages), Len(processedImages')) :
         (Status(k) = "processing" /\ processedImages'[k].status = "processing") =>
            /\ processedImages'[k].progress \in 0..100
            /\ processedImages'[k].progress >= processedImages[k].progress]_vars

\* the category of the error taxonomy a failure belongs to
Category(c) ==
    CASE c \in {"fileType", "fileSize", "http400"} -> "InvalidInput"
      [] c = "http401" -> "Unauthorized"
      [] c = "http402" -> "InsufficientQuota"
      [] c = "http429" -> "RateLimited"
      [] c = "timeout" -> "Timeout"
      [] OTHER -> "Unknown"

\* C19: the message of a failed call is the message of no failure of another
\* category
C19_ErrorTaxonomy ==
    clientPc = "failed" =>
        \A c \in ValidationCauses \cup RequestCauses :
            Category(c) # Category(cause) => errorMessage(c) # thrown

\* C20: the call for a file that is not an image or is larger than 10 MiB
\* fails with no request sent and a 'failed' event as its only event, and the
\* job is 'failed' with no debit call
C20_InvalidInputFailsFast ==
    ((~file.isImage \/ file.size > 10 * 1024 * 1024) /\ clientPc # "idle") =>
        /\ clientPc = "failed"
        /\ requests = 0
        /\ thrown # NoError
        /\ Len(events) = 1 /\ events[1].status = "failed"
        /\ Status(1) = "failed" /\ ~processedImages[1].processed
        /\ lastCall.kind # "debit"

\* an image one byte over the limit was handed in and the job has failed
C20_Witness ==
    /\ file = [isImage |-> TRUE, size |-> MaxSizeInBytes + 1]
    /\ clientPc = "failed"
    /\ Status(1) = "failed"

\* the pixels of the upscaled image
ScaledPixels == estInput.width * estInput.height * estInput.scale * estInput.scale

\* C17: for an image whose dimensions can be read every estimate is the
\* least integer >= 1 with at least one credit per 1,000,000 output pixels,
\* every call gives the same estimate, and 1000x1000 at scale 2 gives 4
C17_EstimateFormula ==
    estInput.readable =>
        \A n \in 1..Len(estResults) :
            /\ estResults[n] \in Nat /\ estResults[n] >= 1
            /\ estResults[n] * 1000000 >= ScaledPixels
            /\ estResults[n] > 1 => (estResults[n] - 1) * 1000000 < ScaledPixels
            /\ estResults[n] = estResults[1]
            /\ (estInput.width = 1000 /\ estInput.height = 1000 /\ estInput.scale = 2)
                  => estResults[n] = 4

\* two estimates of an image whose output is just over a whole number of megapixels
C17_Witness ==
    /\ estInput = [readable |-> TRUE, width |-> 1001, height |-> 1000, scale |-> 2]
    /\ estResults = <<5, 5>>

\* C18: the estimator always resolves, and for an image whose dimensions
\* cannot be read the estimate is the scale factor
C18_EstimateFallback ==
    ~estInput.readable =>
        \A n \in 1..Len(estResults) : estResults[n] = estInput.scale

\* C21: when a remote call ends while the batch is running and not paused and
\* a job is still pending, admission is scheduled to run again (a re-admission
\* timer is armed), whichever finisher of its group the call is
C21_BackfillAfterTerminal ==
    [][\A pos \in 1..Len(inflight) :
         (/\ RemoteSuccess(pos) \/ RemoteFailure(pos)
          /\ isProcessing /\ ~isPaused
          /\ Len(pendingIndices(processedImages')) > 0)
         => timers' # <<>>]_vars

\* C22: no job has two remote upscale calls in flight at the same time
C22_NoDoubleAdmission ==
    \A p, q \in 1..Len(inflight) :
        p # q => inflight[p].index # inflight[q].index

\* the status changes of the job state machine
StatusChanges ==
    {<<"pending", "processing">>, <<"processing", "completed">>,
     <<"processing", "failed">>, <<"failed", "pending">>}

\* C23: every status change of a job record is pending -> processing,
\* processing -> completed, processing -> failed or failed -> pending, and no
\* record has the status 'paused'
C23_StatusStateMachine ==
    [][/\ \A k \in 1..Min(Len(processedImages), Len(processedImages')) :
            processedImages'[k].status # Status(k) =>
                <<Status(k), processedImages'[k].status>> \in StatusChanges
       /\ \A k \in 1..Len(processedImages') : processedImages'[k].status # "paused"]_vars

\* C24: every job that is 'processing' reaches 'completed' or 'failed'
C24_AdmittedTerminates ==
    \A k \in 1..MaxImages :
        (k \in Jobs /\ Status(k) = "processing")
        ~> (k \in Jobs /\ Status(k) \in Terminal)

\* every job of a full batch was admitted and has ended, one of them failed
C24_Witness ==
    /\ Len(processedImages) = MaxImages
    /\ \A k \in Jobs : Status(k) \in Terminal
    /\ StatusCount(processedImages, "failed") = 1
    /\ inflight = <<>>

\* the executions of a credit handler whose balance update the store accepted
UpdatedDebits == {d \in 1..Len(debits) : debits[d].updated}

\* C25: once the debits are through, every debit whose balance update was
\* stored has its usage row and every usage row belongs to such a debit
C25_DebitAllOrNothing ==
    LedgerSettled =>
        /\ Cardinality(UpdatedDebits) = Len(transactions)
        /\ \A d \in UpdatedDebits : debits[d].pc = "done"

\* C26: a request that handleStartProcessing rejects issues no remote upscale
\* call and starts no debit
C26_CreditGate ==
    [][gate' \in Rejected =>
         (requests' = requests /\ Len(debits') = Len(debits))]_vars

\* C27: the stored credit balance is never negative
C27_BalanceNeverNegative == credits >= 0

\* no two job records have the same id
UniqueIds(list) ==
    \A i, j \in 1..Len(list) : i # j => list[i].id # list[j].id

\* C28: the task in which a remote call ends leaves every record of another
\* job as it was, and the ids of the records are unique
C28_TerminalWriteOwnJob ==
    [][\A pos \in 1..Len(inflight) :
         (RemoteSuccess(pos) \/ RemoteFailure(pos)) =>
            /\ \A k \in Jobs :
                  processedImages[k].id # inflight[pos].imageToProcess.id =>
                      /\ k \in 1..Len(processedImages')
                      /\ processedImages'[k] = processedImages[k]
            /\ UniqueIds(processedImages')]_vars

\* the scheduling state of a job record
SchedulingState(rec) == <<rec.status, rec.progress, rec.processed, rec.error>>

\* C29: the list updateEstimates writes back leaves the status, progress,
\* result and error of every record as they are where they changed since the
\* snapshot of the pass was taken
C29_EstimateRefreshKeepsState ==
    [][\A p \in estPasses \ estPasses' :
         \A k \in Jobs :
            (/\ k \in 1..Len(p.snap)
             /\ SchedulingState(processedImages[k]) # SchedulingState(p.snap[k]))
            => /\ k \in 1..Len(processedImages')
               /\ SchedulingState(processedImages'[k]) = SchedulingState(processedImages[k])]_vars

\* every 'processing' record has a remote call in flight
ProcessingHasCall ==
    \A k \in Jobs : Status(k) = "processing" =>
        \E pos \in 1..Len(inflight) : inflight[pos].index = k

\* while a record is processing the run lock is held
RunLock == (\E k \in Jobs : Status(k) = "processing") => isProcessing

\* C30: while a job record is 'processing' the isProcessing flag is true, and
\* no step is a click on Start or Retry Failed or changes the scale or the cap
C30_RunLockHeld ==
    /\ [](RunLock)
    /\ [][(\E k \in Jobs : Status(k) = "processing") =>
            /\ selectedScale' = selectedScale
            /\ maxConcurrentProcessing' = maxConcurrentProcessing
            /\ ~handleStartProcessing
            /\ ~RetryFailed]_vars

\* a job is in flight next to a failed one: Retry Failed is shown, disabled
C30_Witness ==
    /\ isProcessing
    /\ \E k \in Jobs : Status(k) = "processing"
    /\ \E k \in Jobs : Status(k) = "failed"
    /\ ~isPaused
====
